---- MODULE Spec2Model ----
(***************************************************************************)
(* Model of the molecule-identification pipeline of nomad-molecules:       *)
(* the helpers of normalizers/atoms_utils.py and the loop of               *)
(* MoleculesNormalizer.normalize (normalizers/molecules.py).               *)
(*                                                                         *)
(* Two specifications share the module:                                    *)
(*   SpecUtil  one call of a helper on inputs drawn from bounded sets;     *)
(*   Spec      one invocation of MoleculesNormalizer.normalize, one step   *)
(*             per pipeline stage of the entry being processed.            *)
(* The external collaborators (os.path.isfile, atoms_to_inchikey,          *)
(* basic_offline_search, get_dimensionality, to_ase/index selection) are   *)
(* inputs: every outcome they can produce, an exception included, is       *)
(* drawn with \E where the code calls them.                                *)
(***************************************************************************)
EXTENDS Integers, Sequences, FiniteSets, TLC

VARIABLES
    ucall,          \* SpecUtil: the helper call made, its inputs and its outcome
    cfg,            \* the plugin entry point's configuration values
    archive,        \* the archive handed to normalize (results/material/topology)
    pc,             \* position of normalize in its code
    idx,            \* 1-based position of the for loop in topologies
    database_file,  \* local of normalize
    atoms_ref,      \* local of normalize
    ase_atoms,      \* local of normalize
    inchikey,       \* local of normalize
    molecule_data,  \* local of normalize
    matched_full,   \* local of normalize
    log,            \* diagnostics emitted so far, in order
    calls,          \* invocations of external collaborators so far, in order
    raised          \* the exception that escaped normalize ("" when none)

vars == <<ucall, cfg, archive, pc, idx, database_file, atoms_ref, ase_atoms,
          inchikey, molecule_data, matched_full, log, calls, raised>>

normVars == <<cfg, archive, pc, idx, database_file, atoms_ref, ase_atoms,
              inchikey, molecule_data, matched_full, log, calls, raised>>

----------------------------------------------------------------------------
(* Bounds of the model *)

\* atom counts and atom-count limits range over 0..MaxN in SpecUtil
MaxN == 5
\* longest candidate list a lookup returns in SpecUtil
MaxResults == 2
\* longest topology list of an archive
MaxEntries == 2

----------------------------------------------------------------------------
(* Python values *)

\* Python's None where an InChIKey is expected
None == <<"None">>

\* Python's None where a string attribute is expected
NoneStr == "<None>"

\* a Python list, or None where a list is expected
PyList(rows) == [none |-> FALSE, rows |-> rows]
NoneList == [none |-> TRUE, rows |-> <<>>]

\* the three values of the full_match flag: True, False, None
PyTrue == "True"
PyFalse == "False"
PyNone == "None"

\* a diagnostic: level, message template, the values formatted into it
Event(level, msg, args) == [level |-> level, msg |-> msg, args |-> args]

\* an invocation of an external collaborator
Call(fn, db) == [fn |-> fn, db |-> db]

CountLevel(events, level) ==
    Cardinality({i \in 1..Len(events) : events[i].level = level})

----------------------------------------------------------------------------
(* InChIKeys: 27 characters, a 14-character connectivity block, "-", a     *)
(* 10-character block, "-", one character.  The keys are those of the      *)
(* tests.                                                                  *)

SkeletonLen == 14

\* "XLYOFNOQVPJJNP"
WaterBlock == <<"X","L","Y","O","F","N","O","Q","V","P","J","J","N","P">>
\* "CURLTUGMZLYLDI"
CO2Block == <<"C","U","R","L","T","U","G","M","Z","L","Y","L","D","I">>
\* "-UHFFFAOYSA-N"
StdTail == <<"-","U","H","F","F","F","A","O","Y","S","A","-","N">>
\* "-ZSJDYOACSA-N"
IsoTail == <<"-","Z","S","J","D","Y","O","A","C","S","A","-","N">>

WaterKey == WaterBlock \o StdTail
HeavyWaterKey == WaterBlock \o IsoTail
CO2Key == CO2Block \o StdTail

Keys == {WaterKey, HeavyWaterKey, CO2Key}

\* s[:14]
Skeleton(key) ==
    SubSeq(key, 1, IF Len(key) < SkeletonLen THEN Len(key) ELSE SkeletonLen)

\* s[14:]
Remainder(key) == SubSeq(key, SkeletonLen + 1, Len(key))

----------------------------------------------------------------------------
(* Records of the reference database, as basic_offline_search returns      *)
(* them: a dict.  fields is the set of keys the dict has; a field the      *)
(* dict lacks holds None here and reading it raises KeyError in the code.  *)

Fields == {"InChIKey", "SMILES", "InChI", "Formula"}

SmilesOf(key) == IF Skeleton(key) = WaterBlock THEN "O" ELSE "C(=O)=O"
InChIOf(key) ==
    IF Skeleton(key) = WaterBlock THEN "InChI=1S/H2O/h1H2" ELSE "InChI=1S/CO2/c2-1-3"

Row(fields, key) ==
    [fields |-> fields,
     InChIKey |-> IF "InChIKey" \in fields THEN key ELSE None,
     SMILES |-> IF "SMILES" \in fields THEN SmilesOf(key) ELSE "",
     InChI |-> IF "InChI" \in fields THEN InChIOf(key) ELSE ""]

\* {} is the empty dict; the second is the schema of test_atoms_utils.py
\* (no SMILES, no InChI column); the last is the schema of test_molecules.py
FieldSets ==
    { {},
      {"Formula"},
      {"InChIKey", "Formula"},
      {"InChIKey", "SMILES", "Formula"},
      {"InChIKey", "InChI", "Formula"},
      Fields }

Rows == {Row(f, k) : f \in FieldSets, k \in Keys}

SeqsUpTo(S, n) == UNION {[1..m -> S] : m \in 0..n}

----------------------------------------------------------------------------
(* Outcomes of the external collaborators *)

\* atoms_to_inchikey(atoms): a key, or an exception with its message
KeyReturns(key) == [ok |-> TRUE, key |-> key, msg |-> ""]
KeyThrows == [ok |-> FALSE, key |-> None, msg |-> "conversion failed"]
KeyOutcomes == {KeyReturns(k) : k \in Keys} \cup {KeyThrows}

\* basic_offline_search(db, key): a list of records, or an exception
LookupReturns(results) == [ok |-> TRUE, results |-> results, msg |-> ""]
LookupThrows == [ok |-> FALSE, results |-> NoneList, msg |-> "database error"]
LookupOutcomes(rows, n) ==
    {LookupReturns(PyList(r)) : r \in SeqsUpTo(rows, n)}
        \cup {LookupReturns(NoneList), LookupThrows}

\* get_dimensionality(atoms): 0, 1, 2 or 3, or an exception
DimReturns(d) == [ok |-> TRUE, dim |-> d, msg |-> ""]
DimThrows == [ok |-> FALSE, dim |-> 0, msg |-> "classification failed"]
DimOutcomes == {DimReturns(d) : d \in 0..3} \cup {DimThrows}

\* what a helper did: its return value, the diagnostics it emitted, the
\* external collaborators it invoked, the exception that escaped it ("" if none)
Outcome(ret, events, invoked, exc) ==
    [ret |-> ret, log |-> events, calls |-> invoked, exc |-> exc]

----------------------------------------------------------------------------
(* atoms_utils.py *)

validate_atom_count_off_by_one(num_atoms, min_atoms, max_atoms) ==
    IF num_atoms <= min_atoms
    THEN Outcome(FALSE, <<Event("warning", "below minimum", <<num_atoms, min_atoms>>)>>,
                 <<>>, "")
    ELSE IF num_atoms > max_atoms
    THEN Outcome(FALSE, <<Event("warning", "exceeds maximum", <<num_atoms, max_atoms>>)>>,
                 <<>>, "")
    ELSE Outcome(TRUE, <<>>, <<>>, "")

\* validate_atom_count(atoms_data, min_atoms, max_atoms, logger), with
\* num_atoms = len(atoms_data)
validate_atom_count(num_atoms, min_atoms, max_atoms) ==
    IF num_atoms < min_atoms
    THEN Outcome(FALSE, <<Event("warning", "below minimum", <<num_atoms, min_atoms>>)>>,
                 <<>>, "")
    ELSE IF num_atoms > max_atoms
    THEN Outcome(FALSE, <<Event("warning", "exceeds maximum", <<num_atoms, max_atoms>>)>>,
                 <<>>, "")
    ELSE Outcome(TRUE, <<>>, <<>>, "")

validate_dimensionality_rejects_bulk_only(dimOut) ==
    IF ~dimOut.ok
    THEN Outcome(FALSE, <<>>, <<Call("get_dimensionality", "")>>, dimOut.msg)
    ELSE IF dimOut.dim = 3
    THEN Outcome(FALSE, <<Event("warning", "System is {dimensionality}D", <<dimOut.dim>>)>>,
                 <<Call("get_dimensionality", "")>>, "")
    ELSE Outcome(TRUE, <<>>, <<Call("get_dimensionality", "")>>, "")

\* validate_dimensionality(atoms, logger); dimOut is what get_dimensionality
\* does on atoms.  The call is not guarded: its exception escapes.
validate_dimensionality(dimOut) ==
    IF ~dimOut.ok
    THEN Outcome(FALSE, <<>>, <<Call("get_dimensionality", "")>>, dimOut.msg)
    ELSE IF dimOut.dim # 0
    THEN Outcome(FALSE, <<Event("warning", "System is {dimensionality}D", <<dimOut.dim>>)>>,
                 <<Call("get_dimensionality", "")>>, "")
    ELSE Outcome(TRUE, <<>>, <<Call("get_dimensionality", "")>>, "")

\* the tuple query_molecule_database_util returns
QueryResult(key, results, full_match) ==
    [inchikey |-> key, results |-> results, full_match |-> full_match]

\* return None, [], None
EmptyResult == QueryResult(None, PyList(<<>>), PyNone)

database_missing_unchecked(db, files) == FALSE

\* not os.path.isfile(database_file)
database_missing(db, files) == db \notin files

key_failure_reraised(keyOut) ==
    Outcome(EmptyResult,
            <<Event("error", "Error computing InChIKey", <<keyOut.msg>>)>>,
            <<Call("atoms_to_inchikey", "")>>, keyOut.msg)

\* except Exception as e, around atoms_to_inchikey(atoms)
key_failure(keyOut) ==
    Outcome(EmptyResult,
            <<Event("error", "Error computing InChIKey", <<keyOut.msg>>)>>,
            <<Call("atoms_to_inchikey", "")>>, "")

lookup_failure_as_partial(db, keyOut, lookupOut) ==
    Outcome(QueryResult(keyOut.key, PyList(<<>>), PyFalse),
            <<Event("info", "Computed InChIKey", <<keyOut.key>>),
              Event("error", "Error querying local DB", <<lookupOut.msg>>)>>,
            <<Call("atoms_to_inchikey", ""), Call("basic_offline_search", db)>>, "")

\* except Exception as e, around basic_offline_search(database_file, inchikey)
lookup_failure(db, keyOut, lookupOut) ==
    Outcome(EmptyResult,
            <<Event("info", "Computed InChIKey", <<keyOut.key>>),
              Event("error", "Error querying local DB", <<lookupOut.msg>>)>>,
            <<Call("atoms_to_inchikey", ""), Call("basic_offline_search", db)>>, "")

\* not results or not results[0]
no_candidate(results) ==
    \/ results.none
    \/ Len(results.rows) = 0
    \/ results.rows[1].fields = {}

full_match_last_record(rows, key) ==
    IF rows[Len(rows)].InChIKey = key THEN PyTrue ELSE PyFalse

full_match_inverted(rows, key) ==
    IF rows[1].InChIKey # key THEN PyTrue ELSE PyFalse

\* full_match = (results[0]["InChIKey"] == inchikey)
full_match_flag(rows, key) ==
    IF rows[1].InChIKey = key THEN PyTrue ELSE PyFalse

\* query_molecule_database_util(atoms, database_file, logger).  files is the
\* set of paths os.path.isfile accepts, keyOut what atoms_to_inchikey(atoms)
\* does, lookupOut what basic_offline_search(database_file, inchikey) does.
query_molecule_database_util(db, files, keyOut, lookupOut) ==
    IF database_missing(db, files)
    THEN Outcome(EmptyResult,
                 <<Event("error", "Database file not found", <<db>>)>>,
                 <<>>, "")
    ELSE IF ~keyOut.ok
    THEN key_failure(keyOut)
    ELSE IF ~lookupOut.ok
    THEN lookup_failure(db, keyOut, lookupOut)
    ELSE IF no_candidate(lookupOut.results)
    THEN Outcome(QueryResult(keyOut.key, PyList(<<>>), PyNone),
                 <<Event("info", "Computed InChIKey", <<keyOut.key>>),
                   Event("info", "No match found in local DB", <<keyOut.key>>)>>,
                 <<Call("atoms_to_inchikey", ""), Call("basic_offline_search", db)>>,
                 "")
    ELSE IF "InChIKey" \notin lookupOut.results.rows[1].fields
    THEN Outcome(EmptyResult,
                 <<Event("info", "Computed InChIKey", <<keyOut.key>>),
                   Event("error", "Error processing DB results", <<"KeyError">>)>>,
                 <<Call("atoms_to_inchikey", ""), Call("basic_offline_search", db)>>,
                 "")
    ELSE Outcome(QueryResult(keyOut.key, lookupOut.results,
                             full_match_flag(lookupOut.results.rows, keyOut.key)),
                 <<Event("info", "Computed InChIKey", <<keyOut.key>>)>>,
                 <<Call("atoms_to_inchikey", ""), Call("basic_offline_search", db)>>,
                 "")

\* not getattr(system, name, None): the attribute is unset or empty
Falsy(value) == value = NoneStr \/ value = ""

generate_topology_util_overwrites(system, key, data) ==
    IF data.none
    THEN Outcome(system, <<Event("info", "No molecule data found", <<key>>)>>, <<>>, "")
    ELSE Outcome([system EXCEPT !.label = "molecule",
                                !.method = IF Falsy(@) THEN "parser" ELSE @,
                                !.building_block = IF Falsy(@) THEN "molecule" ELSE @],
                 <<>>, <<>>, "")

generate_topology_util_needs_label(system, key, data) ==
    IF data.none
    THEN Outcome(system, <<Event("info", "No molecule data found", <<key>>)>>, <<>>, "")
    ELSE Outcome([system EXCEPT !.label = IF Falsy(@) THEN "molecule" ELSE @,
                                !.method = IF Falsy(@) /\ ~Falsy(system.label)
                                           THEN "parser" ELSE @,
                                !.building_block = IF Falsy(@) /\ ~Falsy(system.label)
                                                   THEN "molecule" ELSE @],
                 <<>>, <<>>, "")

\* generate_topology_util(system, inchikey, molecule_data, logger); the
\* return value is the system object itself, mutated in place
generate_topology_util(system, key, data) ==
    IF data.none
    THEN Outcome(system, <<Event("info", "No molecule data found", <<key>>)>>, <<>>, "")
    ELSE Outcome([system EXCEPT !.label = IF Falsy(@) THEN "molecule" ELSE @,
                                !.method = IF Falsy(@) THEN "parser" ELSE @,
                                !.building_block = IF Falsy(@) THEN "molecule" ELSE @],
                 <<>>, <<>>, "")

\* round half to even of the rational num/den, as np.round does
RoundHalfEven(num, den) ==
    LET n == IF den < 0 THEN -num ELSE num
        d == IF den < 0 THEN -den ELSE den
        q == n \div d
        r == n - q * d
    IN  IF 2 * r < d THEN q
        ELSE IF 2 * r > d THEN q + 1
        ELSE IF q % 2 = 0 THEN q ELSE q + 1

Det3_diagonal_only(m) == m[1][1] * m[2][2] * m[3][3]

\* np.linalg.det(cell) of a 3x3 matrix given as a tuple of rows
Det3(m) ==
      m[1][1] * (m[2][2] * m[3][3] - m[2][3] * m[3][2])
    - m[1][2] * (m[2][1] * m[3][3] - m[2][3] * m[3][1])
    + m[1][3] * (m[2][1] * m[3][2] - m[2][2] * m[3][1])

\* the matrix m with column j replaced by the vector v
WithColumn(m, j, v) ==
    [r \in 1..3 |-> [c \in 1..3 |-> IF c = j THEN v[r] ELSE m[r][c]]]

\* np.round(np.linalg.solve(cell, disp)): the solution x of cell . x = disp
\* by Cramer's rule, each component rounded
RoundedSolve(cell, disp) ==
    [j \in 1..3 |-> RoundHalfEven(Det3(WithColumn(cell, j, disp)), Det3(cell))]

\* cell.dot(n)
MatVec(m, n) == [r \in 1..3 |-> m[r][1] * n[1] + m[r][2] * n[2] + m[r][3] * n[3]]

VecSub(u, v) == [c \in 1..3 |-> u[c] - v[c]]
VecAdd(u, v) == [c \in 1..3 |-> u[c] + v[c]]

Min(S) == CHOOSE x \in S : \A y \in S : x <= y
Max(S) == CHOOSE x \in S : \A y \in S : x >= y

\* the loop of wrap_atoms: every atom but the first is moved to the image
\* nearest to the first, disp -= cell.dot(np.round(frac_disp))
MinimumImage(positions, cell) ==
    [i \in 1..Len(positions) |->
        IF i = 1 THEN positions[1]
        ELSE LET disp == VecSub(positions[i], positions[1])
             IN  VecAdd(positions[1],
                        VecSub(disp, MatVec(cell, RoundedSolve(cell, disp))))]

Dot(u, v) == u[1] * v[1] + u[2] * v[2] + u[3] * v[3]

\* atoms.center() of ASE for a cell whose lattice vectors are mutually
\* orthogonal: along each lattice vector the midpoint of the positions'
\* extent is moved to the middle of the cell (a shift that falls between
\* two grid points is rounded down)
Center(positions, cell) ==
    LET along(k) == {Dot(positions[i], cell[k]) : i \in 1..Len(positions)}
        term(k, c) ==
            ((Dot(cell[k], cell[k]) - Max(along(k)) - Min(along(k))) * cell[k][c])
                \div (2 * Dot(cell[k], cell[k]))
        shift == [c \in 1..3 |-> term(1, c) + term(2, c) + term(3, c)]
    IN  [i \in 1..Len(positions) |-> VecAdd(positions[i], shift)]

\* wrap_atoms(atoms): the object passed in is returned, its positions reset
wrap_atoms(atoms) ==
    IF Det3(atoms.cell) = 0
    THEN atoms
    ELSE [atoms EXCEPT !.positions =
              Center(MinimumImage(atoms.positions, atoms.cell), atoms.cell)]

\* the call wrap_atoms(atoms) as its caller sees it: ret is the object
\* returned, arg the object that was passed in, as it is after the call.
\* They are one object: positions is a copy of the array (line 50), but
\* set_positions and center write to atoms itself (lines 66-67) and atoms
\* is what is returned (lines 54, 68)
wrap_atoms_call(atoms) == [ret |-> wrap_atoms(atoms), arg |-> wrap_atoms(atoms)]

\* an ASE Atoms object (or the NOMAD atoms section to_ase() turns into it):
\* lengths are in units of 0.05 Angstrom
Atoms(symbols, positions, cell, pbc) ==
    [none |-> FALSE, symbols |-> symbols, positions |-> positions,
     cell |-> cell, pbc |-> pbc]

\* None where atoms are expected
NoAtoms ==
    [none |-> TRUE, symbols |-> <<>>, positions |-> <<>>,
     cell |-> <<<<0, 0, 0>>, <<0, 0, 0>>, <<0, 0, 0>>>>,
     pbc |-> <<FALSE, FALSE, FALSE>>]

\* topology.indices: None, or a list of index lists
Indices(blocks) == [none |-> FALSE, blocks |-> blocks]
NoIndices == [none |-> TRUE, blocks |-> <<>>]

\* atoms[idx] for a list idx of 0-based positions; IndexError when one of
\* them is out of range
CanSelect(atoms, block) ==
    \A j \in 1..Len(block) : block[j] < Len(atoms.symbols) /\ block[j] >= 0 - Len(atoms.symbols)

PyIndex(n, k) == IF k < 0 THEN n + k + 1 ELSE k + 1

SelectAtoms(atoms, block) ==
    [atoms EXCEPT
        !.symbols = [j \in 1..Len(block) |-> atoms.symbols[PyIndex(Len(atoms.symbols), block[j])]],
        !.positions = [j \in 1..Len(block) |-> atoms.positions[PyIndex(Len(atoms.symbols), block[j])]]]

get_atoms_data_prefers_atoms_ref(topology, ref) ==
    IF ~topology.indices.none
    THEN IF /\ Len(topology.indices.blocks) > 0
            /\ ~ref.none
            /\ CanSelect(ref, topology.indices.blocks[1])
         THEN Outcome(SelectAtoms(ref, topology.indices.blocks[1]),
                      <<Event("info", "Topology contains indices.", <<>>)>>, <<>>, "")
         ELSE Outcome(NoAtoms,
                      <<Event("info", "Topology contains indices.", <<>>),
                        Event("error", "Failed to apply topology indices",
                              <<IF ref.none THEN "AttributeError" ELSE "IndexError">>)>>,
                      <<>>, "")
    ELSE IF ~topology.atoms_ref.none
    THEN Outcome(topology.atoms_ref, <<>>, <<>>, "")
    ELSE IF ~topology.atoms.none
    THEN Outcome(topology.atoms, <<>>, <<>>, "")
    ELSE Outcome(NoAtoms, <<Event("warning", "No atoms data found", <<>>)>>, <<>>, "")

\* get_atoms_data(topology, atoms_ref, logger)
get_atoms_data(topology, ref) ==
    IF ~topology.indices.none
    THEN IF /\ Len(topology.indices.blocks) > 0
            /\ ~ref.none
            /\ CanSelect(ref, topology.indices.blocks[1])
         THEN Outcome(SelectAtoms(ref, topology.indices.blocks[1]),
                      <<Event("info", "Topology contains indices.", <<>>)>>, <<>>, "")
         ELSE Outcome(NoAtoms,
                      <<Event("info", "Topology contains indices.", <<>>),
                        Event("error", "Failed to apply topology indices",
                              <<IF ref.none THEN "AttributeError" ELSE "IndexError">>)>>,
                      <<>>, "")
    ELSE IF ~topology.atoms.none
    THEN Outcome(topology.atoms, <<>>, <<>>, "")
    ELSE IF ~topology.atoms_ref.none
    THEN Outcome(topology.atoms_ref, <<>>, <<>>, "")
    ELSE Outcome(NoAtoms, <<Event("warning", "No atoms data found", <<>>)>>, <<>>, "")

----------------------------------------------------------------------------
(* Inputs of the helper calls *)

MasterDb == "pubchem_data_FULL.db"
CacheDb == "user_cache.db"
Paths == {MasterDb, CacheDb}

\* values of label, method and building_block: unset, empty, set
LabelValues == {NoneStr, "", "pre-set label"}
MethodValues == {NoneStr, "", "user"}
BuildingBlockValues == {NoneStr, "", "monomer"}

Systems ==
    [label : LabelValues, method : MethodValues, building_block : BuildingBlockValues]

\* the records a helper call can be handed: the helper reads no field but
\* InChIKey, so the schemas are the empty dict, a dict without InChIKey,
\* the schema of test_atoms_utils.py and the one of test_molecules.py
UtilRows ==
    {Row(f, k) : f \in {{}, {"Formula"}, {"InChIKey", "Formula"}, Fields}, k \in Keys}

\* what basic_offline_search returns to a helper call
UtilLookups == LookupOutcomes(UtilRows, MaxResults)

\* molecule_data handed to generate_topology_util
MoleculeData == {NoneList} \cup {PyList(r) : r \in SeqsUpTo(UtilRows, 1)}

----------------------------------------------------------------------------
(* SpecUtil: one call of one helper *)

NoCall == [fn |-> "none", in |-> <<>>, out |-> <<>>]

\* normalize is not running in SpecUtil
Idle ==
    /\ cfg = <<>>
    /\ archive = <<>>
    /\ pc = "idle"
    /\ idx = 0
    /\ database_file = ""
    /\ atoms_ref = <<>>
    /\ ase_atoms = <<>>
    /\ inchikey = None
    /\ molecule_data = NoneList
    /\ matched_full = PyNone
    /\ log = <<>>
    /\ calls = <<>>
    /\ raised = ""

InitUtil == ucall = NoCall /\ Idle

CallValidateAtomCount(n, lo, hi) ==
    /\ ucall = NoCall
    /\ ucall' = [fn |-> "validate_atom_count",
                 in |-> [num_atoms |-> n, min_atoms |-> lo, max_atoms |-> hi],
                 out |-> validate_atom_count(n, lo, hi)]
    /\ UNCHANGED normVars

CallValidateDimensionality(dimOut) ==
    /\ ucall = NoCall
    /\ ucall' = [fn |-> "validate_dimensionality",
                 in |-> [dimOut |-> dimOut],
                 out |-> validate_dimensionality(dimOut)]
    /\ UNCHANGED normVars

CallQueryMoleculeDatabase(db, files, keyOut, lookupOut) ==
    /\ ucall = NoCall
    /\ ucall' = [fn |-> "query_molecule_database_util",
                 in |-> [db |-> db, files |-> files, keyOut |-> keyOut,
                         lookupOut |-> lookupOut],
                 out |-> query_molecule_database_util(db, files, keyOut, lookupOut)]
    /\ UNCHANGED normVars

CallGenerateTopology(system, key, data) ==
    /\ ucall = NoCall
    /\ ucall' = [fn |-> "generate_topology_util",
                 in |-> [system |-> system, inchikey |-> key, molecule_data |-> data],
                 out |-> generate_topology_util(system, key, data)]
    /\ UNCHANGED normVars

----------------------------------------------------------------------------
(* The archive and the configuration normalize runs on *)

MinAtomsConfigured == 2
MaxAtomsConfigured == 4

\* the entry point's values: mode, the two paths and the two limits, and
\* the set of paths that are existing files
Configs ==
    [molid_mode : {"offline-basic", "offline-advanced"},
     molid_master_db : {MasterDb},
     molid_cache_db : {CacheDb},
     min_atoms : {MinAtomsConfigured},
     max_atoms : {MaxAtomsConfigured},
     files : SUBSET Paths]

\* results.Cheminformatics(smiles=..., inchi_key=..., inchi=..., match_type=...)
Cheminformatics(smiles, key, inchi, match_type) ==
    [none |-> FALSE, smiles |-> smiles, inchi_key |-> key, inchi |-> inchi,
     match_type |-> match_type]

\* topology.cheminformatics is None
NoCheminformatics ==
    [none |-> TRUE, smiles |-> NoneStr, inchi_key |-> None, inchi |-> NoneStr,
     match_type |-> NoneStr]

\* an identity block written by an earlier run
EarlierBlock == Cheminformatics("C(=O)=O", CO2Key, InChIOf(CO2Key), "full structure")

\* a topology entry (results.System)
Entry(label, method, building_block, chem, indices, atoms, ref) ==
    [label |-> label, method |-> method, building_block |-> building_block,
     cheminformatics |-> chem, indices |-> indices, atoms |-> atoms,
     atoms_ref |-> ref]

Cubic(a) == <<<<a, 0, 0>>, <<0, a, 0>>, <<0, 0, a>>>>

\* H2O in a 10 Angstrom box, not periodic
Water ==
    Atoms(<<"O", "H", "H">>,
          <<<<50, 50, 50>>, <<10, 50, 50>>, <<50, 70, 50>>>>,
          Cubic(200), <<FALSE, FALSE, FALSE>>)

\* H2O split over the boundary of a periodic 5 Angstrom box (test_wrap_atoms)
WaterPeriodic ==
    Atoms(<<"O", "H", "H">>,
          <<<<4, 50, 50>>, <<84, 50, 50>>, <<4, 70, 50>>>>,
          Cubic(100), <<TRUE, TRUE, TRUE>>)

\* two atoms in a periodic cell with a zero lattice vector (test_wrap_atoms)
SingularPeriodic ==
    Atoms(<<"H", "H">>,
          <<<<0, 0, 0>>, <<20, 20, 20>>>>,
          <<<<20, 0, 0>>, <<0, 0, 0>>, <<0, 0, 20>>>>, <<TRUE, TRUE, TRUE>>)

\* one atom: below min_atoms
SingleAtom ==
    Atoms(<<"O">>, <<<<50, 50, 50>>>>, Cubic(200), <<FALSE, FALSE, FALSE>>)

\* five atoms, above max_atoms, periodic along x only
FiveAtoms ==
    Atoms(<<"O", "H", "H", "C", "N">>,
          <<<<50, 50, 50>>, <<10, 50, 50>>, <<50, 70, 50>>, <<30, 30, 30>>,
            <<60, 60, 60>>>>,
          Cubic(200), <<TRUE, FALSE, FALSE>>)

\* the topology entries archives are built from
Entries ==
    { \* a fresh entry with its own atoms
      Entry(NoneStr, NoneStr, NoneStr, NoCheminformatics, NoIndices, Water, NoAtoms),
      \* the entry of the whole system, periodic
      Entry("original", "parser", NoneStr, NoCheminformatics, NoIndices, NoAtoms,
            WaterPeriodic),
      Entry("original", "parser", NoneStr, NoCheminformatics, NoIndices, NoAtoms,
            SingularPeriodic),
      Entry("conventional cell", "parser", NoneStr, NoCheminformatics, NoIndices,
            Water, NoAtoms),
      \* a molecule of a group, annotated by an earlier run
      Entry("H2O_MOL", "user", "monomer", EarlierBlock, Indices(<<<<0, 1, 2>>>>),
            NoAtoms, FiveAtoms),
      \* indices that do not fit the referenced atoms
      Entry("H2O_MOL", "parser", NoneStr, NoCheminformatics, Indices(<<<<0, 7>>>>),
            NoAtoms, Water),
      \* neither atoms nor atoms_ref
      Entry("H2O_GROUP", "parser", NoneStr, NoCheminformatics, NoIndices, NoAtoms,
            NoAtoms),
      Entry(NoneStr, NoneStr, NoneStr, NoCheminformatics, NoIndices, SingleAtom,
            NoAtoms),
      Entry(NoneStr, NoneStr, NoneStr, NoCheminformatics, NoIndices, NoAtoms,
            FiveAtoms) }

\* an archive: results and results.material present or not, and the list
\* results.material.topology
Archive(results, material, topology) ==
    [results |-> results, material |-> material, topology |-> topology]

Archives ==
    {Archive(FALSE, FALSE, <<>>), Archive(TRUE, FALSE, <<>>)}
        \cup {Archive(TRUE, TRUE, t) : t \in SeqsUpTo(Entries, MaxEntries)}

\* what atoms_to_inchikey does for normalize
NormalizeKeys == {KeyReturns(WaterKey), KeyReturns(HeavyWaterKey), KeyThrows}

\* what basic_offline_search returns to normalize
NormalizeLookups ==
    {LookupThrows, LookupReturns(NoneList), LookupReturns(PyList(<<>>))}
        \cup {LookupReturns(PyList(<<r>>)) : r \in Rows}
        \cup {LookupReturns(PyList(<<Row(Fields, k), Row(Fields, WaterKey)>>)) : k \in Keys}

----------------------------------------------------------------------------
(* Spec: MoleculesNormalizer.normalize(archive, logger) *)

Init ==
    /\ ucall = NoCall
    /\ cfg \in Configs
    /\ archive \in Archives
    /\ pc = "start"
    /\ idx = 0
    /\ database_file = ""
    /\ atoms_ref = NoAtoms
    /\ ase_atoms = NoAtoms
    /\ inchikey = None
    /\ molecule_data = NoneList
    /\ matched_full = PyNone
    /\ log = <<>>
    /\ calls = <<>>
    /\ raised = ""

topologies == archive.topology

\* continue: the for loop takes the next entry, or normalize returns
Continue ==
    /\ idx' = idx + 1
    /\ pc' = IF idx + 1 > Len(topologies) THEN "done" ELSE "loop"
    /\ atoms_ref' = NoAtoms
    /\ ase_atoms' = NoAtoms
    /\ inchikey' = None
    /\ molecule_data' = NoneList
    /\ matched_full' = PyNone

\* an exception leaves normalize
Raise(exc) ==
    /\ pc' = "raised"
    /\ raised' = exc
    /\ UNCHANGED <<idx, atoms_ref, ase_atoms, inchikey, molecule_data, matched_full>>

database_choice_master_always(c) == c.molid_master_db

\* database_file = cfg.molid_master_db if the mode is "offline-basic",
\* else cfg.molid_cache_db
database_choice(c) ==
    IF c.molid_mode = "offline-basic" THEN c.molid_master_db ELSE c.molid_cache_db

Start_warns_per_entry ==
    /\ pc = "start"
    /\ database_file' = database_choice(cfg)
    /\ calls' = calls \o <<Call("save_config", database_choice(cfg))>>
    /\ IF ~archive.results \/ ~archive.material \/ Len(topologies) = 0
       THEN /\ log' = log \o <<Event("info", "Starting", <<>>),
                               Event("warning", "No topology data found in archive", <<>>),
                               Event("warning", "No topology data found in archive", <<>>)>>
            /\ pc' = "done"
            /\ idx' = idx
       ELSE /\ log' = log \o <<Event("info", "Starting", <<>>)>>
            /\ pc' = "loop"
            /\ idx' = 1
    /\ UNCHANGED <<ucall, cfg, archive, atoms_ref, ase_atoms, inchikey,
                   molecule_data, matched_full, raised>>

\* the configuration is read, save_config is called and the archive is
\* probed for results, material and topology
Start ==
    /\ pc = "start"
    /\ database_file' = database_choice(cfg)
    /\ calls' = calls \o <<Call("save_config", database_choice(cfg))>>
    /\ IF ~archive.results
       THEN /\ log' = log \o <<Event("info", "Starting", <<>>),
                               Event("info", "No results found in archive", <<>>)>>
            /\ pc' = "done"
            /\ idx' = idx
       ELSE IF ~archive.material
       THEN /\ log' = log \o <<Event("info", "Starting", <<>>),
                               Event("info", "No material found in archive", <<>>)>>
            /\ pc' = "done"
            /\ idx' = idx
       ELSE IF Len(topologies) = 0
       THEN /\ log' = log \o <<Event("info", "Starting", <<>>),
                               Event("info", "No topology data found in archive", <<>>)>>
            /\ pc' = "done"
            /\ idx' = idx
       ELSE /\ log' = log \o <<Event("info", "Starting", <<>>)>>
            /\ pc' = "loop"
            /\ idx' = 1
    /\ UNCHANGED <<ucall, cfg, archive, atoms_ref, ase_atoms, inchikey,
                   molecule_data, matched_full, raised>>

Select_skips_every_original ==
    /\ pc = "loop"
    /\ LET topology == topologies[idx] IN
       IF topology.label = "conventional cell"
       THEN /\ log' = log \o <<Event("debug", "Skipping 'conventional cell' topology.", <<>>)>>
            /\ Continue
       ELSE IF topology.label = "original"
       THEN /\ log' = log \o <<Event("debug", "Skipping 'original' topology", <<>>)>>
            /\ Continue
       ELSE IF ~topology.atoms_ref.none
       THEN /\ atoms_ref' = topology.atoms_ref
            /\ pc' = "get_atoms"
            /\ UNCHANGED <<log, idx, ase_atoms, inchikey, molecule_data, matched_full>>
       ELSE IF ~topology.atoms.none
       THEN /\ atoms_ref' = topology.atoms
            /\ pc' = "get_atoms"
            /\ UNCHANGED <<log, idx, ase_atoms, inchikey, molecule_data, matched_full>>
       ELSE /\ log' = log \o <<Event("warning", "No atoms or atoms_ref found in topology", <<>>)>>
            /\ Continue
    /\ UNCHANGED <<ucall, cfg, archive, database_file, calls, raised>>

\* the head of the loop body: the label filter and the choice of atoms_ref
Select ==
    /\ pc = "loop"
    /\ LET topology == topologies[idx] IN
       IF topology.label = "conventional cell"
       THEN /\ log' = log \o <<Event("debug", "Skipping 'conventional cell' topology.", <<>>)>>
            /\ Continue
       ELSE IF topology.label = "original" /\ Len(topologies) > 1
       THEN /\ log' = log \o <<Event("debug", "Skipping 'original' topology", <<>>)>>
            /\ Continue
       ELSE IF ~topology.atoms_ref.none
       THEN /\ atoms_ref' = topology.atoms_ref
            /\ pc' = "get_atoms"
            /\ UNCHANGED <<log, idx, ase_atoms, inchikey, molecule_data, matched_full>>
       ELSE IF ~topology.atoms.none
       THEN /\ atoms_ref' = topology.atoms
            /\ pc' = "get_atoms"
            /\ UNCHANGED <<log, idx, ase_atoms, inchikey, molecule_data, matched_full>>
       ELSE /\ log' = log \o <<Event("warning", "No atoms or atoms_ref found in topology", <<>>)>>
            /\ Continue
    /\ UNCHANGED <<ucall, cfg, archive, database_file, calls, raised>>

\* ase_atoms = get_atoms_data(topology, atoms_ref, logger)
GetAtoms ==
    /\ pc = "get_atoms"
    /\ LET got == get_atoms_data(topologies[idx], atoms_ref) IN
       /\ log' = log \o got.log
       /\ IF got.ret.none
          THEN Continue
          ELSE /\ ase_atoms' = got.ret
               /\ pc' = "count"
               /\ UNCHANGED <<idx, atoms_ref, inchikey, molecule_data, matched_full>>
    /\ UNCHANGED <<ucall, cfg, archive, database_file, calls, raised>>

ValidateCount_ungated ==
    /\ pc = "count"
    /\ LET checked == validate_atom_count(Len(ase_atoms.symbols), cfg.min_atoms,
                                          cfg.max_atoms) IN
       /\ log' = log \o checked.log
       /\ pc' = "wrap"
       /\ UNCHANGED <<idx, atoms_ref, ase_atoms, inchikey, molecule_data, matched_full>>
    /\ UNCHANGED <<ucall, cfg, archive, database_file, calls, raised>>

\* if not validate_atom_count(ase_atoms, min_atoms, max_atoms, logger): continue
ValidateCount ==
    /\ pc = "count"
    /\ LET checked == validate_atom_count(Len(ase_atoms.symbols), cfg.min_atoms,
                                          cfg.max_atoms) IN
       /\ log' = log \o checked.log
       /\ IF checked.ret
          THEN /\ pc' = "wrap"
               /\ UNCHANGED <<idx, atoms_ref, ase_atoms, inchikey, molecule_data,
                              matched_full>>
          ELSE Continue
    /\ UNCHANGED <<ucall, cfg, archive, database_file, calls, raised>>

AllPeriodic_any_flag(atoms) == \E c \in 1..3 : atoms.pbc[c]

\* all(ase_atoms.pbc)
AllPeriodic(atoms) == \A c \in 1..3 : atoms.pbc[c]

\* if all(ase_atoms.pbc): ase_atoms = wrap_atoms(ase_atoms)
Wrap ==
    /\ pc = "wrap"
    /\ ase_atoms' = IF AllPeriodic(ase_atoms) THEN wrap_atoms(ase_atoms) ELSE ase_atoms
    /\ pc' = "dimensionality"
    /\ UNCHANGED <<ucall, cfg, archive, idx, database_file, atoms_ref, inchikey,
                   molecule_data, matched_full, log, calls, raised>>

\* if not validate_dimensionality(ase_atoms, logger): continue
ValidateDimensionality(dimOut) ==
    /\ pc = "dimensionality"
    /\ LET checked == validate_dimensionality(dimOut) IN
       /\ log' = log \o checked.log
       /\ calls' = calls \o checked.calls
       /\ IF checked.exc # ""
          THEN Raise(checked.exc)
          ELSE IF checked.ret
          THEN /\ pc' = "query"
               /\ UNCHANGED <<idx, atoms_ref, ase_atoms, inchikey, molecule_data,
                              matched_full, raised>>
          ELSE Continue /\ UNCHANGED raised
    /\ UNCHANGED <<ucall, cfg, archive, database_file>>

no_identity_key_only(result) == result.inchikey = None

\* if inchikey is None or matched_full is None: continue
no_identity(result) == result.inchikey = None \/ result.full_match = PyNone

\* the call of query_molecule_database_util and the test that follows it
Query(keyOut, lookupOut) ==
    /\ pc = "query"
    /\ LET got == query_molecule_database_util(database_file, cfg.files, keyOut,
                                               lookupOut) IN
       /\ log' = log \o got.log
       /\ calls' = calls \o got.calls
       /\ IF no_identity(got.ret)
          THEN Continue
          ELSE /\ inchikey' = got.ret.inchikey
               /\ molecule_data' = got.ret.results
               /\ matched_full' = got.ret.full_match
               /\ pc' = "attach"
               /\ UNCHANGED <<idx, atoms_ref, ase_atoms>>
    /\ UNCHANGED <<ucall, cfg, archive, database_file, raised>>

skeleton_block_truncated(key) ==
    Cheminformatics(NoneStr, Skeleton(key), NoneStr, "skeleton (core)")

\* Cheminformatics(inchi_key=inchikey, match_type='skeleton (core)')
skeleton_block(key) == Cheminformatics(NoneStr, key, NoneStr, "skeleton (core)")

full_block_from_computed_key(first, key) ==
    Cheminformatics(first.SMILES, key, NoneStr, "full structure")

\* Cheminformatics(smiles=molecule_data[0]["SMILES"],
\*                 inchi_key=molecule_data[0]["InChIKey"],
\*                 inchi=molecule_data[0]["InChI"], match_type='full structure')
full_block(first, key) ==
    Cheminformatics(first.SMILES, first.InChIKey, first.InChI, "full structure")

\* lines 117-136 of normalize: the identity block is built and assigned to
\* topology.cheminformatics; a field the first record lacks raises KeyError
\* before anything is assigned
attach_cheminformatics(topology, key, data, full) ==
    IF full = PyTrue
    THEN IF "SMILES" \notin data.rows[1].fields \/ "InChI" \notin data.rows[1].fields
         THEN Outcome(topology, <<>>, <<>>, "KeyError")
         ELSE Outcome([topology EXCEPT !.cheminformatics = full_block(data.rows[1], key)],
                      <<>>, <<>>, "")
    ELSE Outcome([topology EXCEPT !.cheminformatics = skeleton_block(key)],
                 <<Event("info", "Molecule identification based on the first block", <<>>)>>,
                 <<>>, "")

\* lines 117-139 of normalize, the annotation of one entry: the identity
\* block, then generate_topology_util on the same entry
annotate(topology, key, data, full) ==
    LET attached == attach_cheminformatics(topology, key, data, full) IN
    IF attached.exc # ""
    THEN attached
    ELSE LET made == generate_topology_util(attached.ret, key, data)
         IN  Outcome(made.ret, attached.log \o made.log, <<>>, "")

Attach ==
    /\ pc = "attach"
    /\ LET made == attach_cheminformatics(topologies[idx], inchikey, molecule_data,
                                          matched_full) IN
       /\ log' = log \o made.log
       /\ IF made.exc # ""
          THEN /\ Raise(made.exc)
               /\ UNCHANGED archive
          ELSE /\ archive' = [archive EXCEPT !.topology[idx] = made.ret]
               /\ pc' = "generate"
               /\ UNCHANGED <<idx, atoms_ref, ase_atoms, inchikey, molecule_data,
                              matched_full, raised>>
    /\ UNCHANGED <<ucall, cfg, database_file, calls>>

Generate_appends ==
    /\ pc = "generate"
    /\ LET made == generate_topology_util(topologies[idx], inchikey, molecule_data) IN
       /\ archive' = [archive EXCEPT !.topology = Append(@, made.ret)]
       /\ log' = log \o made.log
    /\ Continue
    /\ UNCHANGED <<ucall, cfg, database_file, calls, raised>>

\* generate_topology_util(topology, inchikey, molecule_data, logger), the
\* last statement of the loop body
Generate ==
    /\ pc = "generate"
    /\ LET made == generate_topology_util(topologies[idx], inchikey, molecule_data) IN
       /\ archive' = [archive EXCEPT !.topology[idx] = made.ret]
       /\ log' = log \o made.log
    /\ Continue
    /\ UNCHANGED <<ucall, cfg, database_file, calls, raised>>

Next ==
    \/ Start
    \/ Select
    \/ GetAtoms
    \/ ValidateCount
    \/ Wrap
    \/ \E dimOut \in DimOutcomes : ValidateDimensionality(dimOut)
    \/ \E keyOut \in NormalizeKeys, lookupOut \in NormalizeLookups : Query(keyOut, lookupOut)
    \/ Attach
    \/ Generate

Spec == Init /\ [][Next]_vars

----------------------------------------------------------------------------
(* SpecUtil, continued: the calls that work on entries and atoms *)

\* the entries handed to the annotation step: every combination of label,
\* method and building_block, without an identity block or with an earlier one
AnnotateEntries ==
    {Entry(s.label, s.method, s.building_block, chem, NoIndices, Water, NoAtoms) :
        s \in Systems, chem \in {NoCheminformatics, EarlierBlock}}

\* the match results that reach the annotation step: what
\* query_molecule_database_util returns when neither the key nor the flag
\* is None (line 114 of normalize)
Matches ==
    {m \in {query_molecule_database_util(MasterDb, {MasterDb}, keyOut, lookupOut).ret :
                keyOut \in KeyOutcomes, lookupOut \in LookupOutcomes(UtilRows, 1)} :
        m.inchikey # None /\ m.full_match # PyNone}

\* the annotation of one entry with one match result
CallAnnotate(topology, match) ==
    /\ ucall = NoCall
    /\ ucall' = [fn |-> "annotate",
                 in |-> [topology |-> topology, match |-> match],
                 out |-> annotate(topology, match.inchikey, match.results,
                                  match.full_match)]
    /\ UNCHANGED normVars

\* the annotation applied again to the entry it returned, with the same
\* match result
CallAnnotateAgain ==
    /\ ucall.fn = "annotate"
    /\ ucall.out.exc = ""
    /\ ucall' = [fn |-> "annotate again",
                 in |-> [topology |-> ucall.out.ret, match |-> ucall.in.match,
                         original |-> ucall.in.topology],
                 out |-> annotate(ucall.out.ret, ucall.in.match.inchikey,
                                  ucall.in.match.results, ucall.in.match.full_match)]
    /\ UNCHANGED normVars

\* a cubic cell turned about z: lattice vectors (3, 4, 0), (-4, 3, 0) and
\* (0, 0, 5) Angstrom
RotatedCubic == <<<<60, 80, 0>>, <<-80, 60, 0>>, <<0, 0, 100>>>>

\* lattices handed to wrap_atoms: cubic, orthorhombic and turned cubic
\* cells, and singular ones: a zero lattice vector (test_wrap_atoms), no
\* cell at all, two equal lattice vectors
WrapCells ==
    { Cubic(100),
      <<<<100, 0, 0>>, <<0, 60, 0>>, <<0, 0, 80>>>>,
      RotatedCubic,
      <<<<20, 0, 0>>, <<0, 0, 0>>, <<0, 0, 20>>>>,
      <<<<0, 0, 0>>, <<0, 0, 0>>, <<0, 0, 0>>>>,
      <<<<100, 100, 0>>, <<100, 100, 0>>, <<0, 0, 100>>>> }

\* coordinates of the second atom: inside a 5 Angstrom cell near either
\* face and in the middle, and outside of it
WrapCoords == {4, 50, 84, 130}

\* the atoms handed to wrap_atoms: those of test_wrap_atoms, and two atoms
\* in every cell at every combination of the coordinates
WrapInputs ==
    {WaterPeriodic, SingularPeriodic}
        \cup {Atoms(<<"O", "H">>, <<first, <<x, y, z>>>>, cell, <<TRUE, TRUE, TRUE>>) :
                first \in {<<4, 50, 50>>, <<50, 50, 50>>},
                x \in WrapCoords, y \in WrapCoords, z \in WrapCoords,
                cell \in WrapCells}

CallWrapAtoms(atoms) ==
    /\ ucall = NoCall
    /\ ucall' = [fn |-> "wrap_atoms",
                 in |-> [atoms |-> atoms],
                 out |-> wrap_atoms_call(atoms)]
    /\ UNCHANGED normVars

----------------------------------------------------------------------------
(* nomad_plugin_molecules: MoleculeNormalizer, the older normalizer *)

\* database_file of query_molecule_database: a path fixed in the code
PluginDb == "../molecule_identification/OpenBabel/pubchem_data_FULL.db"

\* the database the caller provides (temporary_db of test_molecule.py)
GivenDb == "tmp_path/pubchem_data_FULL.db"

\* System(method='parser', label='molecule', building_block='molecule')
MoleculeSystem ==
    Entry("molecule", "parser", "molecule", NoCheminformatics, NoIndices, NoAtoms, NoAtoms)

\* the archive handed to MoleculeNormalizer.normalize: run tells whether
\* archive.run is non-empty, atoms is archive.run[0].system[0].atoms
PluginArchive(run, atoms, results, material, topology) ==
    [run |-> run, atoms |-> atoms, results |-> results, material |-> material,
     topology |-> topology]

\* H2O in a 5 Angstrom box, not periodic (create_archive of test_molecule.py)
PluginWater ==
    Atoms(<<"O", "H", "H">>,
          <<<<50, 50, 50>>, <<65, 62, 50>>, <<35, 62, 50>>>>,
          Cubic(100), <<FALSE, FALSE, FALSE>>)

PluginArchives ==
    {PluginArchive(FALSE, NoAtoms, FALSE, FALSE, <<>>)}
        \cup {PluginArchive(TRUE, atoms, a.results, a.material, a.topology) :
                atoms \in {PluginWater, WaterPeriodic, SingularPeriodic},
                a \in {Archive(FALSE, FALSE, <<>>), Archive(TRUE, FALSE, <<>>),
                       Archive(TRUE, TRUE, <<>>),
                       Archive(TRUE, TRUE,
                               <<Entry(NoneStr, NoneStr, NoneStr, NoCheminformatics,
                                       NoIndices, NoAtoms, PluginWater)>>)}}

\* query_pubchem_database(atoms, database_file) of molid: a key and the
\* records found, or an exception
PluginQueryReturns(key, data) == [ok |-> TRUE, key |-> key, data |-> data, msg |-> ""]
PluginQueryThrows == [ok |-> FALSE, key |-> None, data |-> NoneList, msg |-> "query failed"]

\* without the file at the fixed path the query finds no record
PluginQueryOutcomes(files) ==
    {PluginQueryThrows, PluginQueryReturns(WaterKey, NoneList),
     PluginQueryReturns(WaterKey, PyList(<<>>))}
        \cup (IF PluginDb \in files
              THEN {PluginQueryReturns(WaterKey, PyList(<<Row(Fields, WaterKey)>>))}
              ELSE {})

\* unwrap_atoms(atoms): the same steps as wrap_atoms
unwrap_atoms(atoms) == wrap_atoms(atoms)

\* query_molecule_database(atoms): an exception of the query is logged and
\* (None, None) returned
query_molecule_database(queryOut) ==
    IF queryOut.ok
    THEN Outcome([inchikey |-> queryOut.key, molecule_data |-> queryOut.data],
                 <<Event("info", "InChIKey", <<queryOut.key>>)>>,
                 <<Call("query_pubchem_database", PluginDb)>>, "")
    ELSE Outcome([inchikey |-> None, molecule_data |-> NoneList],
                 <<Event("error", "Error querying the local PubChem DB", <<queryOut.msg>>)>>,
                 <<Call("query_pubchem_database", PluginDb)>>, "")

\* what a method of MoleculeNormalizer did: its return value, the archive
\* after it, the diagnostics, the external calls, the exception that
\* escaped it
PluginOutcome(ret, after, events, invoked, exc) ==
    [ret |-> ret, archive |-> after, log |-> events, calls |-> invoked, exc |-> exc]

\* create_atoms_object(atoms_data): the Atoms object is built, unwrapped and
\* written to atoms.extxyz; writeOk tells whether ase.io.write succeeds
create_atoms_object(atoms_data, writeOk) ==
    Outcome(unwrap_atoms(atoms_data), <<>>, <<Call("write", "atoms.extxyz")>>,
            IF writeOk THEN "" ELSE "OSError")

\* generate_topology(archive, inchikey, molecule_data).  fresh tells whether
\* EntryArchive().results, the results section of a newly built archive, is
\* truthy; live whether archive.m_xpath('results.material.topology') hands
\* out the archive's own list or a detached copy of a non-empty one
generate_topology(entry_archive, key, data, fresh, live) ==
    IF data.none \/ data.rows = <<>>
    THEN PluginOutcome(PyList(<<>>), entry_archive,
                       <<Event("warning", "No molecule data found", <<key>>)>>, <<>>, "")
    ELSE IF ~entry_archive.results /\ ~fresh
    THEN PluginOutcome(NoneList, entry_archive, <<>>, <<>>, "AttributeError")
    ELSE LET detached == entry_archive.topology # <<>> /\ ~live
         IN  PluginOutcome(PyList(<<MoleculeSystem>>),
                           [entry_archive EXCEPT !.results = TRUE,
                                           !.material = TRUE,
                                           !.topology = IF detached THEN @
                                                        ELSE Append(@, MoleculeSystem)],
                           <<>>, <<>>, "")

\* MoleculeNormalizer.normalize(archive, logger): generate_topology is
\* called twice, once for the print and once for the return value
MoleculeNormalizer_normalize(entry_archive, fresh, live, writeOk, queryOut) ==
    LET starting == <<Event("info", "Starting molecular normalization process.", <<>>)>>
        failed(exc) == <<Event("error", "Error in normalization", <<exc>>)>>
    IN  IF ~entry_archive.run
        THEN PluginOutcome(NoneList, entry_archive, starting, <<>>, "")
        ELSE IF ~fresh
        THEN PluginOutcome(NoneList, entry_archive, starting, <<>>, "")
        ELSE LET created == create_atoms_object(entry_archive.atoms, writeOk)
                 queried == query_molecule_database(queryOut)
                 printed == generate_topology(entry_archive, queried.ret.inchikey,
                                              queried.ret.molecule_data, fresh, live)
                 returned == generate_topology(printed.archive, queried.ret.inchikey,
                                               queried.ret.molecule_data, fresh, live)
             IN  IF created.exc # ""
                 THEN PluginOutcome(NoneList, entry_archive, starting \o failed(created.exc),
                                    created.calls, "")
                 ELSE IF printed.exc # ""
                 THEN PluginOutcome(NoneList, printed.archive,
                                    starting \o queried.log \o failed(printed.exc),
                                    created.calls \o queried.calls, "")
                 ELSE IF returned.exc # ""
                 THEN PluginOutcome(NoneList, returned.archive,
                                    starting \o queried.log \o printed.log
                                        \o failed(returned.exc),
                                    created.calls \o queried.calls, "")
                 ELSE PluginOutcome(returned.ret, returned.archive,
                                    starting \o queried.log \o printed.log \o returned.log,
                                    created.calls \o queried.calls, "")

CallPluginNormalize(entry_archive, files, fresh, live, writeOk, queryOut) ==
    /\ ucall = NoCall
    /\ ucall' = [fn |-> "MoleculeNormalizer.normalize",
                 in |-> [archive |-> entry_archive, files |-> files, fresh |-> fresh,
                         live |-> live, writeOk |-> writeOk, queryOut |-> queryOut],
                 out |-> MoleculeNormalizer_normalize(entry_archive, fresh, live, writeOk,
                                                      queryOut)]
    /\ UNCHANGED normVars

\* the entries get_atoms_data is called on: indices unset, empty, one
\* block, a block that does not fit, two blocks; atoms and atoms_ref unset
\* or set (make_topology of test_atoms_utils.py)
GetAtomsTopologies ==
    {Entry(NoneStr, NoneStr, NoneStr, NoCheminformatics, indices, atoms, ref) :
        indices \in {NoIndices, Indices(<<>>), Indices(<<<<0, 2>>>>),
                     Indices(<<<<0, 7>>>>), Indices(<<<<1>>, <<0, 2>>>>)},
        atoms \in {NoAtoms, SingleAtom, Water},
        ref \in {NoAtoms, Water, WaterPeriodic}}

\* the atoms_ref argument of get_atoms_data
GetAtomsRefs == {NoAtoms, Water, FiveAtoms}

CallGetAtomsData(topology, ref) ==
    /\ ucall = NoCall
    /\ ucall' = [fn |-> "get_atoms_data",
                 in |-> [topology |-> topology, atoms_ref |-> ref],
                 out |-> get_atoms_data(topology, ref)]
    /\ UNCHANGED normVars

\* the inputs of a helper are drawn only while no call is recorded
WhenIdle(inputs) == IF ucall = NoCall THEN inputs ELSE {}

NextUtil ==
    \/ \E n \in WhenIdle(0..MaxN), lo \in 0..MaxN, hi \in 0..MaxN :
          CallValidateAtomCount(n, lo, hi)
    \/ \E dimOut \in WhenIdle(DimOutcomes) : CallValidateDimensionality(dimOut)
    \/ \E db \in WhenIdle(Paths), files \in SUBSET Paths, keyOut \in KeyOutcomes,
          lookupOut \in UtilLookups :
          CallQueryMoleculeDatabase(db, files, keyOut, lookupOut)
    \/ \E system \in WhenIdle(Systems), key \in Keys \cup {None}, data \in MoleculeData :
          CallGenerateTopology(system, key, data)
    \/ \E topology \in WhenIdle(AnnotateEntries), match \in Matches :
          CallAnnotate(topology, match)
    \/ CallAnnotateAgain
    \/ \E atoms \in WhenIdle(WrapInputs) : CallWrapAtoms(atoms)
    \/ \E topology \in WhenIdle(GetAtomsTopologies), ref \in GetAtomsRefs :
          CallGetAtomsData(topology, ref)
    \/ \E entry_archive \in WhenIdle(PluginArchives), files \in SUBSET {PluginDb, GivenDb},
          fresh \in BOOLEAN, live \in BOOLEAN, writeOk \in BOOLEAN :
          \E queryOut \in PluginQueryOutcomes(files) :
              CallPluginNormalize(entry_archive, files, fresh, live, writeOk, queryOut)

SpecUtil == InitUtil /\ [][NextUtil]_vars

----------------------------------------------------------------------------
(* Claims about the helpers, checked under SpecUtil *)

Called(fn) == ucall.fn = fn

\* the call reached the key computation: the database file exists
QueryRan ==
    /\ Called("query_molecule_database_util")
    /\ ucall.in.db \in ucall.in.files

\* the key was computed and the lookup returned normally
LookupReturned == QueryRan /\ ucall.in.keyOut.ok /\ ucall.in.lookupOut.ok

\* C2: validate_atom_count returns true exactly when
\* min_atoms <= n <= max_atoms, for every n and every pair of bounds; a
\* rejection emits exactly one diagnostic, a warning, an acceptance none.
C2_AtomCountIffWithinBounds ==
    Called("validate_atom_count") =>
        LET i == ucall.in
            o == ucall.out
        IN  /\ o.ret = (i.min_atoms <= i.num_atoms /\ i.num_atoms <= i.max_atoms)
            /\ o.exc = ""
            /\ Len(o.log) = (IF o.ret THEN 0 ELSE 1)
            /\ CountLevel(o.log, "warning") = Len(o.log)

\* the count sits on the lower bound and is accepted without a warning
C2_Witness ==
    /\ Called("validate_atom_count")
    /\ ucall.in.num_atoms = ucall.in.min_atoms
    /\ ucall.in.min_atoms < ucall.in.max_atoms
    /\ ucall.out.ret = TRUE
    /\ ucall.out.log = <<>>

\* C3: with a database path that is not an existing file,
\* query_molecule_database_util returns (None, [], None), emits one
\* error-level diagnostic naming the path and nothing else, and invokes
\* neither atoms_to_inchikey nor basic_offline_search.
C3_MissingDatabaseReturnsEmpty ==
    (Called("query_molecule_database_util") /\ ucall.in.db \notin ucall.in.files) =>
        /\ ucall.out.ret = EmptyResult
        /\ ucall.out.log = <<Event("error", "Database file not found", <<ucall.in.db>>)>>
        /\ ucall.out.calls = <<>>
        /\ ucall.out.exc = ""

\* the file is missing although key computation and lookup would have
\* produced a full match
C3_Witness ==
    /\ Called("query_molecule_database_util")
    /\ ucall.in.db \notin ucall.in.files
    /\ ucall.in.keyOut = KeyReturns(WaterKey)
    /\ ucall.in.lookupOut = LookupReturns(PyList(<<Row(Fields, WaterKey)>>))
    /\ ucall.out.ret = EmptyResult

\* C4: an exception of atoms_to_inchikey or of basic_offline_search does
\* not escape query_molecule_database_util: the call returns an empty
\* candidate list and no tier, emits exactly one error-level diagnostic,
\* which carries the exception's message, and after a failed key
\* computation the lookup is not invoked.
C4_ExternalFailureContained ==
    (QueryRan /\ (~ucall.in.keyOut.ok \/ ~ucall.in.lookupOut.ok)) =>
        LET i == ucall.in
            o == ucall.out
            message == IF ~i.keyOut.ok THEN i.keyOut.msg ELSE i.lookupOut.msg
        IN  /\ o.exc = ""
            /\ o.ret.results = PyList(<<>>)
            /\ o.ret.full_match = PyNone
            /\ CountLevel(o.log, "error") = 1
            /\ \E k \in 1..Len(o.log) :
                  o.log[k].level = "error" /\ o.log[k].args = <<message>>
            /\ ~i.keyOut.ok =>
                  \A k \in 1..Len(o.calls) : o.calls[k].fn # "basic_offline_search"

\* the key computation throws where the lookup would have found water
C4_Witness ==
    /\ QueryRan
    /\ ucall.in.keyOut = KeyThrows
    /\ ucall.in.lookupOut = LookupReturns(PyList(<<Row(Fields, WaterKey)>>))
    /\ ucall.out.ret = EmptyResult

\* C5: once the key is computed and the lookup has returned, the result is
\* decided by the first record alone.  No candidate (None, an empty list or
\* an empty first record): the computed key, an empty list, no tier.
\* Otherwise, the first record carrying a stored key: the computed key, the
\* list as returned, and the flag True exactly when that stored key equals
\* the computed key, False otherwise, whatever the later records are.
C5_FirstRecordDecides ==
    LookupReturned =>
        LET key == ucall.in.keyOut.key
            results == ucall.in.lookupOut.results
            ret == ucall.out.ret
        IN  /\ ucall.out.exc = ""
            /\ (results.none \/ results.rows = <<>> \/ results.rows[1].fields = {}) =>
                  ret = QueryResult(key, PyList(<<>>), PyNone)
            /\ (~results.none /\ results.rows # <<>>
                    /\ "InChIKey" \in results.rows[1].fields) =>
                  /\ ret.inchikey = key
                  /\ ret.results = results
                  /\ ret.full_match = PyTrue <=> results.rows[1].InChIKey = key
                  /\ ret.full_match = PyFalse <=> results.rows[1].InChIKey # key

\* two candidates, the second one holding the computed key, the first not:
\* the first decides and the match is partial
C5_Witness ==
    /\ LookupReturned
    /\ ucall.in.keyOut.key = WaterKey
    /\ Len(ucall.in.lookupOut.results.rows) = 2
    /\ ucall.in.lookupOut.results.rows[1] = Row(Fields, HeavyWaterKey)
    /\ ucall.in.lookupOut.results.rows[2] = Row(Fields, WaterKey)
    /\ ucall.out.ret.full_match = PyFalse

C9_DefaultsOnlyWhereUnset ==
    (Called("generate_topology_util") /\ ~ucall.in.molecule_data.none) =>
        LET before == ucall.in.system
            after == ucall.out.ret
        IN  /\ ucall.out.exc = ""
            /\ after.label = (IF before.label \in {NoneStr, ""}
                              THEN "molecule" ELSE before.label)
            /\ after.method = (IF before.method \in {NoneStr, ""}
                               THEN "parser" ELSE before.method)
            /\ after.building_block = (IF before.building_block \in {NoneStr, ""}
                                       THEN "molecule" ELSE before.building_block)
            /\ DOMAIN after = DOMAIN before

\* a label set upstream is kept while the two other fields get defaults
C9_Witness ==
    /\ Called("generate_topology_util")
    /\ ~ucall.in.molecule_data.none
    /\ ucall.in.system.label = "pre-set label"
    /\ ucall.in.system.method = NoneStr
    /\ ucall.in.system.building_block = ""
    /\ ucall.out.ret.label = "pre-set label"
    /\ ucall.out.ret.method = "parser"
    /\ ucall.out.ret.building_block = "molecule"

\* C11: the annotation of an entry (identity block, then
\* generate_topology_util) applied a second time to the entry the first
\* application returned, with the same match result, raises nothing and
\* leaves label, method, building_block and the identity block, and every
\* other field of the entry, as the first application left them.
C11_AnnotationIdempotent ==
    Called("annotate again") =>
        /\ ucall.out.exc = ""
        /\ ucall.out.ret.label = ucall.in.topology.label
        /\ ucall.out.ret.method = ucall.in.topology.method
        /\ ucall.out.ret.building_block = ucall.in.topology.building_block
        /\ ucall.out.ret.cheminformatics = ucall.in.topology.cheminformatics
        /\ ucall.out.ret = ucall.in.topology

\* an entry with nothing set and an earlier block, annotated twice with a
\* partial match: the first application changed it, the second did not
C11_Witness ==
    /\ Called("annotate again")
    /\ ucall.in.original.label = NoneStr
    /\ ucall.in.original.method = NoneStr
    /\ ucall.in.original.cheminformatics = EarlierBlock
    /\ ucall.in.match.full_match = PyFalse
    /\ ucall.in.topology.label = "molecule"
    /\ ucall.in.topology.cheminformatics.match_type = "skeleton (core)"
    /\ ucall.out.ret.method = "parser"

Cross(u, v) ==
    <<u[2] * v[3] - u[3] * v[2], u[3] * v[1] - u[1] * v[3], u[1] * v[2] - u[2] * v[1]>>

\* the volume spanned by the three lattice vectors, signed
Volume(cell) == Dot(cell[1], Cross(cell[2], cell[3]))

\* C14: for atoms whose lattice matrix is singular (determinant zero: on
\* the grid of the model no other determinant is below 1e-8 in absolute
\* value), wrap_atoms returns the input with every position unchanged:
\* neither the minimum-image correction nor the re-centering is applied.
C14_SingularCellUnchanged ==
    (Called("wrap_atoms") /\ Volume(ucall.in.atoms.cell) = 0) =>
        /\ ucall.out.ret.positions = ucall.in.atoms.positions
        /\ ucall.out.ret = ucall.in.atoms

\* two atoms in a cell with two equal lattice vectors, the second atom
\* outside of what the cell would be: returned where they were
C14_Witness ==
    /\ Called("wrap_atoms")
    /\ ucall.in.atoms.cell = <<<<100, 100, 0>>, <<100, 100, 0>>, <<0, 0, 100>>>>
    /\ ucall.in.atoms.positions = <<<<4, 50, 50>>, <<130, 130, 84>>>>
    /\ ucall.out.ret.positions = <<<<4, 50, 50>>, <<130, 130, 84>>>>

\* how far the cells of periodic images are looked at around an atom
Images == -2..2

\* the lattice translation n[1] a + n[2] b + n[3] c
Translation(cell, n) ==
    [c \in 1..3 |-> n[1] * cell[1][c] + n[2] * cell[2][c] + n[3] * cell[3][c]]

\* C15: for atoms with a non-singular lattice and all-true periodicity,
\* after wrap_atoms the displacement of every atom from atom 0 differs
\* from its displacement before by an integer combination of the lattice
\* vectors, and no periodic image of the atom is nearer to atom 0.
C15_MinimumImage ==
    (/\ Called("wrap_atoms")
     /\ Volume(ucall.in.atoms.cell) # 0
     /\ \A c \in 1..3 : ucall.in.atoms.pbc[c]) =>
        LET cell == ucall.in.atoms.cell
            before == ucall.in.atoms.positions
            after == ucall.out.ret.positions
        IN  \A i \in 2..Len(before) :
                LET moved == VecSub(VecSub(before[i], before[1]),
                                    VecSub(after[i], after[1]))
                    disp == VecSub(after[i], after[1])
                IN  /\ \E n \in Images \X Images \X Images :
                          moved = Translation(cell, n)
                    /\ \A n \in Images \X Images \X Images :
                          Dot(disp, disp) <=
                              Dot(VecAdd(disp, Translation(cell, n)),
                                  VecAdd(disp, Translation(cell, n)))

\* C16: wrap_atoms never changes the atoms it is given: after the call the
\* positions of the object passed in are what they were before the call.
C16_InputNotMutated ==
    Called("wrap_atoms") =>
        ucall.out.arg.positions = ucall.in.atoms.positions

\* C18: generate_topology_util does nothing on an empty match: with no key
\* and no candidates (the candidate list empty or None) the entry's label,
\* method and building_block are left exactly as they were.
C18_EmptyMatchIsNoOp ==
    (/\ Called("generate_topology_util")
     /\ ucall.in.inchikey = None
     /\ ucall.in.molecule_data.none \/ ucall.in.molecule_data.rows = <<>>) =>
        /\ ucall.out.ret.label = ucall.in.system.label
        /\ ucall.out.ret.method = ucall.in.system.method
        /\ ucall.out.ret.building_block = ucall.in.system.building_block

\* C20: MoleculeNormalizer.normalize of nomad_plugin_molecules, given an
\* archive with a run holding a water molecule and a reference database
\* that contains water, returns a list of exactly one topology entry, whose
\* method is 'parser', label 'molecule' and building_block 'molecule'.
C20_PluginReturnsOneMolecule ==
    (/\ Called("MoleculeNormalizer.normalize")
     /\ ucall.in.archive.run
     /\ ucall.in.archive.atoms = PluginWater
     /\ GivenDb \in ucall.in.files
     /\ ucall.in.writeOk
     /\ ucall.in.queryOut.ok) =>
        /\ ~ucall.out.ret.none
        /\ Len(ucall.out.ret.rows) = 1
        /\ ucall.out.ret.rows[1].method = "parser"
        /\ ucall.out.ret.rows[1].label = "molecule"
        /\ ucall.out.ret.rows[1].building_block = "molecule"

\* atoms[idx] for a list idx of positions counted from 0
Selection(atoms, block) ==
    [atoms EXCEPT !.symbols = [j \in 1..Len(block) |-> atoms.symbols[block[j] + 1]],
                  !.positions = [j \in 1..Len(block) |-> atoms.positions[block[j] + 1]]]

\* C26: get_atoms_data selects the geometry by fixed precedence: for an
\* entry with indices, the first index block applied to the atoms_ref
\* argument, with one info message (whatever atoms and atoms_ref the entry
\* holds; the case is that of a block that fits the referenced atoms);
\* otherwise the entry's own atoms, also when atoms_ref exists; otherwise
\* the entry's atoms_ref; and with none of the three, None and one warning.
C26_GeometryByPrecedence ==
    Called("get_atoms_data") =>
        LET topology == ucall.in.topology
            ref == ucall.in.atoms_ref
            out == ucall.out
        IN  /\ out.exc = ""
            /\ (/\ ~topology.indices.none
                /\ topology.indices.blocks # <<>>
                /\ ~ref.none
                /\ \A j \in 1..Len(topology.indices.blocks[1]) :
                      topology.indices.blocks[1][j] \in 0..(Len(ref.symbols) - 1)) =>
                  /\ out.ret = Selection(ref, topology.indices.blocks[1])
                  /\ out.log = <<Event("info", "Topology contains indices.", <<>>)>>
            /\ ~topology.indices.none => CountLevel(out.log, "info") = 1
            /\ (topology.indices.none /\ ~topology.atoms.none) =>
                  out.ret = topology.atoms /\ out.log = <<>>
            /\ (topology.indices.none /\ topology.atoms.none
                    /\ ~topology.atoms_ref.none) =>
                  out.ret = topology.atoms_ref /\ out.log = <<>>
            /\ (topology.indices.none /\ topology.atoms.none
                    /\ topology.atoms_ref.none) =>
                  /\ out.ret.none
                  /\ out.log = <<Event("warning", "No atoms data found", <<>>)>>

\* an entry with its own atoms and an atoms_ref, no indices: its own atoms
\* were returned, and they are not the referenced ones
C26_Witness ==
    /\ Called("get_atoms_data")
    /\ ucall.in.topology.indices.none
    /\ ucall.in.topology.atoms = SingleAtom
    /\ ucall.in.topology.atoms_ref = Water
    /\ ucall.out.ret = SingleAtom

\* C28: every result of query_molecule_database_util has one of three
\* shapes: no key, an empty candidate list and no tier; a key, an empty
\* candidate list and no tier; a key, a non-empty candidate list and a
\* boolean tier.  So the list is non-empty exactly when the tier is set, a
\* missing key comes with an empty list, and the list is never None.
C28_ThreeResultShapes ==
    Called("query_molecule_database_util") =>
        LET result == ucall.out.ret IN
        /\ ucall.out.exc = ""
        /\ ~result.results.none
        /\ result.full_match \in {PyNone, PyTrue, PyFalse}
        /\ \/ result.inchikey = None /\ result.results.rows = <<>>
                /\ result.full_match = PyNone
           \/ result.inchikey \in Keys /\ result.results.rows = <<>>
                /\ result.full_match = PyNone
           \/ result.inchikey \in Keys /\ Len(result.results.rows) >= 1
                /\ result.full_match \in {PyTrue, PyFalse}
        /\ result.results.rows # <<>> <=> result.full_match # PyNone
        /\ result.inchikey = None => result.results.rows = <<>>

\* a lookup returned two records, the first with another key than the
\* computed one: a key, both candidates and the tier False came back
C28_Witness ==
    /\ Called("query_molecule_database_util")
    /\ ucall.out.ret.inchikey = ucall.in.keyOut.key
    /\ Len(ucall.out.ret.results.rows) = 2
    /\ ucall.out.ret.full_match = PyFalse

----------------------------------------------------------------------------
(* Claims about normalize, checked under Spec *)

\* the identity block of the entry normalize is working on
CurrentBlock == topologies[idx].cheminformatics

\* C1: normalize never raises to its caller, whatever the archive holds
\* and whatever the external collaborators do.
C1_NormalizeNeverRaises == pc # "raised" /\ raised = ""

\* C7: on a full match the identity block assigned to the entry holds the
\* SMILES string, the key and the InChI of the first candidate record and
\* the match type 'full structure'; the assignment happens for every first
\* record that has the three fields, and generate_topology_util leaves the
\* block as assigned.
C7_FullMatchBlockFromFirstCandidate ==
    [][ /\ (pc = "attach" /\ matched_full = PyTrue
               /\ {"SMILES", "InChI"} \subseteq molecule_data.rows[1].fields) =>
              /\ pc' = "generate"
              /\ archive'.topology[idx].cheminformatics =
                    Cheminformatics(molecule_data.rows[1].SMILES,
                                    molecule_data.rows[1].InChIKey,
                                    molecule_data.rows[1].InChI,
                                    "full structure")
        /\ (pc = "attach" /\ matched_full = PyTrue /\ pc' = "generate") =>
              archive'.topology[idx].cheminformatics.match_type = "full structure"
        /\ (pc = "generate" /\ matched_full = PyTrue) =>
              archive'.topology[idx].cheminformatics = CurrentBlock
      ]_vars

\* water against a database holding water: the run ends with the entry
\* carrying SMILES "O", the water key and InChI=1S/H2O/h1H2
C7_Witness ==
    /\ pc = "done"
    /\ Len(topologies) = 1
    /\ topologies[1].cheminformatics =
          Cheminformatics("O", WaterKey, "InChI=1S/H2O/h1H2", "full structure")
    /\ topologies[1].building_block = "molecule"

C10_PopulatedFieldsKept ==
    [][ \A i \in 1..Len(topologies) :
           /\ ~Falsy(topologies[i].label) =>
                 archive'.topology[i].label = topologies[i].label
           /\ ~Falsy(topologies[i].method) =>
                 archive'.topology[i].method = topologies[i].method
           /\ ~Falsy(topologies[i].building_block) =>
                 archive'.topology[i].building_block = topologies[i].building_block
           /\ ~topologies[i].cheminformatics.none =>
                 archive'.topology[i].cheminformatics = topologies[i].cheminformatics
      ]_vars

\* the entry normalize is working on
CurrentEntry == topologies[idx]

\* the step ends the work on the current entry and leaves the archive as it is
Skips == idx' = idx + 1 /\ archive' = archive

\* C12: an entry that is skipped by its label, lacks atoms, fails the
\* atom-count or the dimensionality check, or yields no identity (database
\* file missing, key computation or lookup failure, no candidate) keeps
\* its label, method, building_block and identity block: the step that
\* rejects it leaves the archive as it is and moves to the next entry, no
\* step before the annotation changes the archive, no step changes an entry
\* other than the current one, and no entry is visited again.  The query
\* step is judged by what it logs: an error for a missing file or a failed
\* key computation or lookup, "No match found" for no candidate; it passes
\* an entry on to the annotation only with a key, a flag and a candidate.
C12_RejectedEntriesUntouched ==
    [][ /\ \A i \in 1..Len(topologies) :
              i # idx => archive'.topology[i] = topologies[i]
        /\ idx' >= idx
        /\ pc \notin {"attach", "generate"} => archive' = archive
        /\ (pc = "loop" /\ CurrentEntry.label = "conventional cell") => Skips
        /\ (pc = "loop" /\ CurrentEntry.label = "original" /\ Len(topologies) > 1) => Skips
        /\ (pc = "loop" /\ CurrentEntry.atoms.none /\ CurrentEntry.atoms_ref.none) => Skips
        /\ (pc = "get_atoms" /\ ~CurrentEntry.indices.none
                /\ ~CanSelect(atoms_ref, CurrentEntry.indices.blocks[1])) => Skips
        /\ (pc = "count" /\ (Len(ase_atoms.symbols) < cfg.min_atoms
                                \/ Len(ase_atoms.symbols) > cfg.max_atoms)) => Skips
        /\ pc = "dimensionality" =>
              \A dimOut \in DimOutcomes :
                  (ValidateDimensionality(dimOut) /\ dimOut.ok /\ dimOut.dim # 0) => Skips
        /\ pc = "query" =>
              /\ pc' = "attach" \/ Skips
              /\ (\/ database_file \notin cfg.files
                  \/ log'[Len(log')].level = "error"
                  \/ log'[Len(log')].msg = "No match found in local DB") => Skips
              /\ pc' = "attach" =>
                    /\ inchikey' # None
                    /\ matched_full' \in {PyTrue, PyFalse}
                    /\ ~molecule_data'.none
                    /\ molecule_data'.rows # <<>>
                    /\ "InChIKey" \in molecule_data'.rows[1].fields
      ]_vars

\* an entry with nothing set went through every check, the lookup found no
\* candidate for its key, and the run ended with the entry as it was
C12_Witness ==
    /\ pc = "done"
    /\ Len(topologies) = 1
    /\ topologies[1] = Entry(NoneStr, NoneStr, NoneStr, NoCheminformatics, NoIndices,
                             Water, NoAtoms)
    /\ \E k \in 1..Len(log) : log[k].msg = "No match found in local DB"

\* what identifies an entry: the atoms it holds or refers to
Identity(entry) ==
    [indices |-> entry.indices, atoms |-> entry.atoms, atoms_ref |-> entry.atoms_ref]

\* C13: normalize never adds an entry to the archive's topology list,
\* never removes one and never reorders the list: every step leaves the
\* list with the same length and the same entry at every position.
C13_TopologyListKept ==
    [][ /\ Len(archive'.topology) = Len(topologies)
        /\ \A i \in 1..Len(topologies) :
              Identity(archive'.topology[i]) = Identity(topologies[i])
        /\ archive'.results = archive.results
        /\ archive'.material = archive.material
      ]_vars

\* a run over two entries ended: the first, a water molecule, was
\* annotated, the second, a group without atoms, was passed over, and
\* both are where they were
C13_Witness ==
    /\ pc = "done"
    /\ Len(topologies) = 2
    /\ topologies[1].atoms = Water
    /\ topologies[1].cheminformatics.match_type = "full structure"
    /\ topologies[1].label = "molecule"
    /\ topologies[2].label = "H2O_GROUP"
    /\ topologies[2].cheminformatics.none

\* C17: validate_dimensionality returns true (the entry goes on to the
\* query) exactly when the classifier returns 0, and then emits nothing;
\* for the classifications 1, 2 and 3 it returns false and emits exactly one
\* warning, which names the dimensionality; the entry rejected is left as
\* it is, the run goes on with the next entry, and nothing is written to
\* an entry once the run has moved past it, so that the rejected entry
\* never receives an identity block.
C17_OnlyZeroDimensionalPasses ==
    [][ /\ pc = "dimensionality" =>
              \A dimOut \in DimOutcomes :
                  (ValidateDimensionality(dimOut) /\ dimOut.ok) =>
                      /\ pc' = "query" <=> dimOut.dim = 0
                      /\ dimOut.dim = 0 => log' = log /\ idx' = idx
                      /\ dimOut.dim # 0 =>
                            /\ log' = log \o <<Event("warning", "System is {dimensionality}D",
                                                      <<dimOut.dim>>)>>
                            /\ idx' = idx + 1
                            /\ pc' \in {"loop", "done"}
                            /\ archive' = archive
        /\ \A i \in 1..Len(topologies) :
              (i < idx \/ pc = "done") =>
                  archive'.topology[i].cheminformatics = topologies[i].cheminformatics
        /\ idx' >= idx
      ]_vars

\* a water molecule classified as a chain: the run ended with one warning
\* naming 1D and the entry without an identity block
C17_Witness ==
    /\ pc = "done"
    /\ Len(topologies) = 1
    /\ topologies[1].atoms = Water
    /\ topologies[1].cheminformatics.none
    /\ topologies[1].label = NoneStr
    /\ CountLevel(log, "warning") = 1
    /\ \E k \in 1..Len(log) :
          log[k] = Event("warning", "System is {dimensionality}D", <<1>>)

\* the atom count of the current geometry is within the configured limits
WithinLimits ==
    /\ Len(ase_atoms.symbols) >= cfg.min_atoms
    /\ Len(ase_atoms.symbols) <= cfg.max_atoms

\* the step invokes the external collaborator fn
Invokes(fn) == \E k \in (Len(calls) + 1)..Len(calls') : calls'[k].fn = fn

\* C21: for one entry the stages run in the order atom-count check,
\* unwrap, dimensionality check, resolve, annotate, and each gates the
\* next: the unwrap step is entered only from an accepting atom-count
\* check, the dimensionality check only from the unwrap step, the resolver
\* only from a dimensionality check that called the classifier and
\* emitted nothing; the key computation and the database lookup are
\* invoked only in the resolver step, for a geometry within the limits
\* whose classification was the last external call; and the archive is
\* written only in the annotation, which is entered only from a resolver
\* step that left a key and at least one candidate.
C21_StagesGateEachOther ==
    [][ /\ pc = "count" => (pc' = "wrap" <=> WithinLimits)
        /\ pc' = "wrap" => pc = "count"
        /\ pc = "wrap" => pc' = "dimensionality"
        /\ pc' = "dimensionality" => pc = "wrap" /\ WithinLimits
        /\ pc' = "query" =>
              /\ pc = "dimensionality"
              /\ Invokes("get_dimensionality")
              /\ log' = log
        /\ (Invokes("atoms_to_inchikey") \/ Invokes("basic_offline_search")) =>
              /\ pc = "query"
              /\ WithinLimits
              /\ calls[Len(calls)].fn = "get_dimensionality"
        /\ pc' = "attach" =>
              /\ pc = "query"
              /\ Invokes("atoms_to_inchikey")
              /\ Invokes("basic_offline_search")
              /\ inchikey' # None
              /\ ~molecule_data'.none
              /\ Len(molecule_data'.rows) >= 1
        /\ archive' # archive => pc \in {"attach", "generate"}
        /\ pc' = "generate" => pc = "attach" /\ inchikey # None
        /\ pc = "generate" =>
              archive'.topology[idx].cheminformatics = CurrentBlock
      ]_vars

\* a run over one water molecule ended with the entry annotated, the
\* collaborators having been invoked in the order of the stages
C21_Witness ==
    /\ pc = "done"
    /\ Len(topologies) = 1
    /\ ~topologies[1].cheminformatics.none
    /\ calls = <<Call("save_config", database_file), Call("get_dimensionality", ""),
                 Call("atoms_to_inchikey", ""),
                 Call("basic_offline_search", database_file)>>

\* the geometry get_atoms_data handed to normalize for the current entry
Retrieved == get_atoms_data(CurrentEntry, atoms_ref).ret

\* C22: normalize invokes wrap_atoms on an entry's atom set if and only if
\* all three periodicity flags are true: at the dimensionality check and at
\* the resolver, an atom set with at least one false flag is the one
\* get_atoms_data returned, positions unchanged, and a fully periodic one
\* is what wrap_atoms makes of it.
C22_WrapOnlyWhenFullyPeriodic ==
    pc \in {"dimensionality", "query"} =>
        /\ Retrieved.pbc # <<TRUE, TRUE, TRUE>> => ase_atoms = Retrieved
        /\ Retrieved.pbc = <<TRUE, TRUE, TRUE>> =>
              ase_atoms = wrap_atoms_call(Retrieved).ret

\* the water molecule split over the boundary of its periodic box has
\* reached the resolver in one piece, its positions changed
C22_Witness ==
    /\ pc = "query"
    /\ Retrieved = WaterPeriodic
    /\ ase_atoms.positions # WaterPeriodic.positions
    /\ ase_atoms.pbc = <<TRUE, TRUE, TRUE>>

\* an entry of the list normalize skips whatever the collaborators do: by
\* its label, or because it has neither atoms nor atoms_ref
SkippedOutright(entry) ==
    \/ entry.label = "conventional cell"
    \/ entry.label = "original" /\ Len(topologies) > 1
    \/ entry.atoms.none /\ entry.atoms_ref.none

\* C23: a skip of one entry does not stop the run: when the first entry of
\* the list is skipped, every later entry is still processed, so that the
\* run ends only by the loop running out of entries, each of them taken
\* through the pipeline to a skip or to its identity block; in
\* particular an entry for which the resolver returned a key and a tier
\* has its identity block when the run has ended.
C23_SkipDoesNotStopTheRun ==
    (/\ Len(topologies) >= 2
     /\ SkippedOutright(topologies[1])
     /\ pc \in {"done", "raised"}) =>
        /\ pc = "done"
        /\ idx = Len(topologies) + 1
        /\ matched_full # PyNone => ~CurrentBlock.none

\* the diagnostic that names what the archive lacks
Absence ==
    IF ~archive.results THEN Event("info", "No results found in archive", <<>>)
    ELSE IF ~archive.material THEN Event("info", "No material found in archive", <<>>)
    ELSE Event("info", "No topology data found in archive", <<>>)

InPipeline ==
    pc \in {"get_atoms", "count", "wrap", "dimensionality", "query", "attach", "generate"}

\* the entry is one the label filter passes over
FilteredByLabel(entry) ==
    \/ entry.label = "conventional cell"
    \/ entry.label = "original" /\ Len(topologies) > 1

\* C25: an entry labelled 'conventional cell', and an entry labelled
\* 'original' in a list of more than one entry, is never taken through
\* the pipeline and never carries an identity block; an entry labelled
\* 'original' that is the only entry of the list is taken through the
\* pipeline: when the run has ended no skip was logged for it and, its
\* atom count being within the limits, the classifier was called on it.
C25_LabelFilter ==
    /\ InPipeline => ~FilteredByLabel(CurrentEntry)
    /\ archive.results /\ archive.material =>
          \A i \in 1..Len(topologies) :
              FilteredByLabel(topologies[i]) => topologies[i].cheminformatics.none
    /\ (/\ pc \in {"done", "raised"}
        /\ archive.results /\ archive.material
        /\ Len(topologies) = 1
        /\ topologies[1].label = "original"
        /\ ~topologies[1].atoms_ref.none) =>
          /\ CountLevel(log, "debug") = 0
          /\ (/\ Len(topologies[1].atoms_ref.symbols) >= cfg.min_atoms
              /\ Len(topologies[1].atoms_ref.symbols) <= cfg.max_atoms) =>
                \E k \in 1..Len(calls) : calls[k].fn = "get_dimensionality"

\* the entry of the whole system, alone in its list, was annotated
C25_Witness ==
    /\ pc = "done"
    /\ Len(topologies) = 1
    /\ topologies[1].label = "original"
    /\ topologies[1].atoms_ref = WaterPeriodic
    /\ topologies[1].cheminformatics.match_type = "full structure"

\* the database the mode selects
Selected ==
    IF cfg.molid_mode = "offline-basic" THEN cfg.molid_master_db ELSE cfg.molid_cache_db

\* C27: normalize queries one database per invocation, the master database
\* when the mode is 'offline-basic' and the cache database otherwise: from
\* the first step on database_file is that path, every lookup of the
\* invocation is made against it, every report of a missing file names
\* it, and no lookup is made when it is not an existing file.
C27_OneDatabasePerInvocation ==
    /\ pc # "start" => database_file = Selected
    /\ \A k \in 1..Len(calls) :
          /\ calls[k].fn \in {"basic_offline_search", "save_config"} =>
                calls[k].db = Selected
          /\ calls[k].fn = "basic_offline_search" => Selected \in cfg.files
    /\ \A k \in 1..Len(log) :
          log[k].msg = "Database file not found" => log[k].args = <<Selected>>

\* a run in a mode other than 'offline-basic' over two entries has ended,
\* both looked up in the cache database
C27_Witness ==
    /\ pc = "done"
    /\ cfg.molid_mode = "offline-advanced"
    /\ Len(topologies) = 2
    /\ Cardinality({k \in 1..Len(calls) :
                      calls[k] = Call("basic_offline_search", CacheDb)}) = 2

====
